---- MODULE Spec2Model ----
(***************************************************************************)
(* sensor-io: raw sensor image buffers.                                    *)
(*                                                                         *)
(*   NARaw<T>  (src/src/naraw.rs)  buffer over a column-major dense matrix *)
(*   NDRaw<T>  (src/src/ndraw.rs)  buffer over a row-major 2-d array       *)
(*   sensor_io::NARaw<T> (src/src/lib.rs)  the older dense-matrix buffer,  *)
(*                                 sampling with the by-quadrant CFA rule  *)
(*                                                                         *)
(* A driver applies each operation to the NARaw value and to the NDRaw     *)
(* value with corresponding arguments, as the two test modules do.  Every  *)
(* unwrap() that fails, and every failed index check, is a panic: the call *)
(* returns nothing.                                                        *)
(***************************************************************************)
EXTENDS Integers, Sequences, FiniteSets, TLC

VARIABLES
    tbits,      \* bit width of the element type T (u8, u16, u32)
    img,        \* the decoded content of the RGB image file
    lib,        \* the sensor_io::NARaw value (lib.rs)
    libOut,     \* outcome of the last call on it: "ok" or "panic"
    na,         \* the NARaw value (naraw.rs)
    naOut,      \* outcome of the last NARaw call
    nd,         \* the NDRaw value (ndraw.rs)
    ndOut,      \* outcome of the last NDRaw call
    naFile,     \* content of the file NARaw::write_binimage writes
    ndFile,     \* content of the file NDRaw::write_binimage writes
    op          \* the last call made by the driver, with its arguments

vars == <<tbits, img, lib, libOut, na, naOut, nd, ndOut, naFile, ndFile, op>>

----------------------------------------------------------------------------
(* Bounds of the model *)

MaxDim == 2
MaxRows == 3
MaxCells == 4
ImgDim == 2

(* u16 arithmetic of the wire format *)
U16Modulus == 65536
ByteModulus == 256

----------------------------------------------------------------------------
(* Values *)

TBits == {8, 16, 32}

\* the values of T the driver stores: zero and one more; 300 has two
\* non-zero bytes, 65536 is a u32 that is no u16
ElemVals(bits) == IF bits = 8 THEN {0, 7} ELSE IF bits = 16 THEN {0, 300} ELSE {0, 65536}

NoBuf == [live |-> FALSE, nrows |-> 0, ncols |-> 0, elems |-> << >>]

NoFile == [exists |-> FALSE, bytes |-> << >>]

Panic == [ok |-> FALSE, buf |-> NoBuf]

Zeros(n) == [i \in 1..n |-> 0]

\* T::from_u16 / T::from(u8): the checked conversion of a u16 or u8 into T;
\* every u16 is a u32
FitsT(v, bits) ==
    IF bits = 8 THEN v < ByteModulus ELSE IF bits = 16 THEN v < U16Modulus ELSE TRUE

\* ToPrimitive::to_u16
FitsU16(v) == v < U16Modulus

\* `as u16`
AsU16(n) == n % U16Modulus

\* WriteBytesExt::write_u16::<LittleEndian>
LE16(v) == << v % ByteModulus, v \div ByteModulus >>

\* LE16Seq with the two bytes of each value in big-endian order
LE16Seq_big_endian(vals) ==
    [i \in 1..(2 * Len(vals)) |->
        IF i % 2 = 1 THEN vals[(i + 1) \div 2] \div ByteModulus
                     ELSE vals[i \div 2] % ByteModulus]

\* the bytes of a sequence of u16 values, each little-endian
LE16Seq(vals) ==
    [i \in 1..(2 * Len(vals)) |->
        IF i % 2 = 1 THEN vals[(i + 1) \div 2] % ByteModulus
                     ELSE vals[i \div 2] \div ByteModulus]

\* ReadBytesExt::read_u16::<LittleEndian> of the k-th u16 (k from 0) of a stream
ReadU16(bytes, k) == bytes[2 * k + 1] + ByteModulus * bytes[2 * k + 2]

\* the header's u16 fields and the raster of a stream that holds them
HeaderWidth(bytes) == ReadU16(bytes, 0)

HeaderHeight(bytes) == ReadU16(bytes, 1)

\* the stream holds the header and the width*height values it declares
StreamComplete(bytes) ==
    /\ Len(bytes) >= 4
    /\ Len(bytes) >= 4 + 2 * HeaderWidth(bytes) * HeaderHeight(bytes)

\* index of the first value write_u16 cannot take (to_u16() is None), or
\* Len + 1: the raster is written up to it
FirstUnwritable(vals) ==
    IF \E k \in 1..Len(vals) : ~FitsU16(vals[k])
    THEN CHOOSE k \in 1..Len(vals) :
            /\ ~FitsU16(vals[k])
            /\ \A j \in 1..(k - 1) : FitsU16(vals[j])
    ELSE Len(vals) + 1

\* what a BufWriter leaves in the file: the header, then the raster up to
\* the first value that is no u16 (the panic unwinds through BufWriter's
\* drop, which flushes what was written)
WriteStream(width, height, raster) ==
    LET n == FirstUnwritable(raster) IN
    [ok    |-> n > Len(raster),
     bytes |-> LE16(AsU16(width)) \o LE16(AsU16(height))
               \o LE16Seq(SubSeq(raster, 1, n - 1))]

----------------------------------------------------------------------------
(* NARaw (naraw.rs): nalgebra::DMatrix<T>, stored column by column *)

\* NA_index taking the matrix as stored row by row
NA_index_row_major(buf, y, x) == y * buf.ncols + x + 1

\* DMatrix index (irow, icol)
NA_index(buf, y, x) == x * buf.nrows + y + 1

NA_in_bounds(buf, y, x) == y < buf.nrows /\ x < buf.ncols

NA_width(buf) == buf.ncols

NA_height(buf) == buf.nrows

\* DMatrix::from_fn(nrows, ncols, f): element (y, x) is f[y, x]
NA_from_fn(nrows, ncols, f) ==
    [live  |-> TRUE, nrows |-> nrows, ncols |-> ncols,
     elems |-> [i \in 1..(nrows * ncols) |-> f[(i - 1) % nrows, (i - 1) \div nrows]]]

\* NA_new with the arguments of zeros() exchanged
NA_new_swapped(width, height) ==
    [ok  |-> TRUE,
     buf |-> [live |-> TRUE, nrows |-> width, ncols |-> height,
              elems |-> Zeros(height * width)]]

NA_new(width, height) ==
    [ok  |-> TRUE,
     buf |-> [live |-> TRUE, nrows |-> height, ncols |-> width,
              elems |-> Zeros(height * width)]]

\* vec2d[0] panics on an empty outer sequence, vec2d[y][x] on a row shorter
\* than the first one; a longer row is read up to the first row's length
NA_convert_vector2d_to_dmatrix(vec2d) ==
    IF Len(vec2d) = 0 THEN Panic
    ELSE LET h == Len(vec2d)
             w == Len(vec2d[1])
             f == [y \in 0..(h - 1), x \in 0..(w - 1) |-> vec2d[y + 1][x + 1]]
         IN  IF \E y \in 1..h : Len(vec2d[y]) < w THEN Panic
             ELSE [ok |-> TRUE, buf |-> NA_from_fn(h, w, f)]

NA_new_from_vector2d(vec2d) == NA_convert_vector2d_to_dmatrix(vec2d)

\* pix(x, y) is data[(y, x)]
NA_pix(buf, x, y) == buf.elems[NA_index(buf, y, x)]

\* the values in the order write_binimage visits them: y outer, x inner
NA_raster(buf) ==
    [k \in 1..(buf.nrows * buf.ncols) |->
        NA_pix(buf, (k - 1) % buf.ncols, (k - 1) \div buf.ncols)]

NA_write_binimage(buf) == WriteStream(NA_width(buf), NA_height(buf), NA_raster(buf))

\* File::open, the two header reads, zeros(height, width), then one
\* read_u16 and one T::from_u16 per cell, y outer, x inner; each unwrap()
\* panics on a missing file, a short stream or a value that is no T
NA_new_from_binimage(file, bits) ==
    IF ~file.exists \/ Len(file.bytes) < 4 THEN Panic
    ELSE LET width  == HeaderWidth(file.bytes)
             height == HeaderHeight(file.bytes)
             val == [y \in 0..(height - 1), x \in 0..(width - 1) |->
                        ReadU16(file.bytes, 2 + y * width + x)]
         IN  IF \/ ~StreamComplete(file.bytes)
                \/ \E k \in 0..(width * height - 1) : ~FitsT(ReadU16(file.bytes, 2 + k), bits)
             THEN Panic
             ELSE [ok |-> TRUE, buf |-> NA_from_fn(height, width, val)]

\* NA_read_binimage assigning self whatever the constructor produced
NA_read_binimage_always_assigns(self, file, bits) == NA_new_from_binimage(file, bits)

\* *self = Self::new_from_binimage(path): self is assigned only if the
\* constructor returns
NA_read_binimage(self, file, bits) ==
    LET r == NA_new_from_binimage(file, bits) IN
    IF r.ok THEN r ELSE [ok |-> FALSE, buf |-> self]

\* *self.pix(x, y) = v
NA_pix_write(buf, x, y, v) ==
    IF ~NA_in_bounds(buf, y, x) THEN [ok |-> FALSE, buf |-> buf]
    ELSE [ok |-> TRUE, buf |-> [buf EXCEPT !.elems[NA_index(buf, y, x)] = v]]

\* NA_bayer_channel with red and blue exchanged
NA_bayer_channel_bgr(x, y) ==
    IF x % 2 # y % 2 THEN 1
    ELSE IF x % 2 = 0 THEN 2
    ELSE 0

\* the channel index convert_rgb_to_bayer reads at (x, y): the by-parity rule
NA_bayer_channel(x, y) ==
    IF x % 2 # y % 2 THEN 1
    ELSE IF x % 2 = 0 THEN 0
    ELSE 2

\* img_in.get_pixel(x, y)[c]
GetPixel(image, x, y, c) == image.px[y * image.width + x + 1][c + 1]

NA_convert_rgb_to_bayer(image, x, y) == GetPixel(image, x, y, NA_bayer_channel(x, y))

\* image::open(..).unwrap(), then from_fn(height, width, |y, x| bayer(x, y))
\* with T::from(..).unwrap() per cell
NA_new_from_rgbimage(image, bits) ==
    LET f == [y \in 0..(image.height - 1), x \in 0..(image.width - 1) |->
                NA_convert_rgb_to_bayer(image, x, y)]
    IN  IF ~image.ok THEN Panic
        ELSE IF \E x \in 0..(image.width - 1), y \in 0..(image.height - 1) :
                    ~FitsT(f[y, x], bits)
             THEN Panic
             ELSE [ok |-> TRUE, buf |-> NA_from_fn(image.height, image.width, f)]

----------------------------------------------------------------------------
(* NDRaw (ndraw.rs): ndarray::Array2<T>, stored row by row *)

\* Array2 index [y, x]
ND_index(buf, y, x) == y * buf.ncols + x + 1

ND_in_bounds(buf, y, x) == y < buf.nrows /\ x < buf.ncols

ND_width(buf) == buf.ncols

ND_height(buf) == buf.nrows

\* Array2::from_shape_fn((nrows, ncols), f): element [y, x] is f[y, x]
ND_from_shape_fn(nrows, ncols, f) ==
    [live  |-> TRUE, nrows |-> nrows, ncols |-> ncols,
     elems |-> [i \in 1..(nrows * ncols) |-> f[(i - 1) \div ncols, (i - 1) % ncols]]]

ND_new(width, height) ==
    [ok  |-> TRUE,
     buf |-> [live |-> TRUE, nrows |-> height, ncols |-> width,
              elems |-> Zeros(height * width)]]

RECURSIVE ND_convert_vector2d_to_vector1d(_)
ND_convert_vector2d_to_vector1d(vec2d) ==
    IF Len(vec2d) = 0 THEN << >>
    ELSE Head(vec2d) \o ND_convert_vector2d_to_vector1d(Tail(vec2d))

\* Array2::from_shape_vec((height, width), vec1d).unwrap(): an error unless
\* vec1d holds exactly height*width values
ND_convert_vector1d_to_ndarray(vec1d, width, height) ==
    IF Len(vec1d) # height * width THEN Panic
    ELSE [ok  |-> TRUE,
          buf |-> [live |-> TRUE, nrows |-> height, ncols |-> width, elems |-> vec1d]]

\* vec2d[0] panics on an empty outer sequence
ND_new_from_vector2d(vec2d) ==
    LET vec1d == ND_convert_vector2d_to_vector1d(vec2d) IN
    IF Len(vec2d) = 0 THEN Panic
    ELSE ND_convert_vector1d_to_ndarray(vec1d, Len(vec2d[1]), Len(vec2d))

\* pix(x, y) is data[[y, x]]
ND_pix(buf, x, y) == buf.elems[ND_index(buf, y, x)]

ND_raster(buf) ==
    [k \in 1..(buf.nrows * buf.ncols) |->
        ND_pix(buf, (k - 1) % buf.ncols, (k - 1) \div buf.ncols)]

ND_write_binimage(buf) == WriteStream(ND_width(buf), ND_height(buf), ND_raster(buf))

ND_new_from_binimage(file, bits) ==
    IF ~file.exists \/ Len(file.bytes) < 4 THEN Panic
    ELSE LET width  == HeaderWidth(file.bytes)
             height == HeaderHeight(file.bytes)
             val == [y \in 0..(height - 1), x \in 0..(width - 1) |->
                        ReadU16(file.bytes, 2 + y * width + x)]
         IN  IF \/ ~StreamComplete(file.bytes)
                \/ \E k \in 0..(width * height - 1) : ~FitsT(ReadU16(file.bytes, 2 + k), bits)
             THEN Panic
             ELSE [ok |-> TRUE, buf |-> ND_from_shape_fn(height, width, val)]

ND_read_binimage(self, file, bits) ==
    LET r == ND_new_from_binimage(file, bits) IN
    IF r.ok THEN r ELSE [ok |-> FALSE, buf |-> self]

ND_pix_write(buf, x, y, v) ==
    IF ~ND_in_bounds(buf, y, x) THEN [ok |-> FALSE, buf |-> buf]
    ELSE [ok |-> TRUE, buf |-> [buf EXCEPT !.elems[ND_index(buf, y, x)] = v]]

ND_bayer_channel(x, y) ==
    IF x % 2 # y % 2 THEN 1
    ELSE IF x % 2 = 0 THEN 0
    ELSE 2

ND_convert_rgb_to_bayer(image, x, y) == GetPixel(image, x, y, ND_bayer_channel(x, y))

ND_new_from_rgbimage(image, bits) ==
    LET f == [y \in 0..(image.height - 1), x \in 0..(image.width - 1) |->
                ND_convert_rgb_to_bayer(image, x, y)]
    IN  IF ~image.ok THEN Panic
        ELSE IF \E x \in 0..(image.width - 1), y \in 0..(image.height - 1) :
                    ~FitsT(f[y, x], bits)
             THEN Panic
             ELSE [ok |-> TRUE, buf |-> ND_from_shape_fn(image.height, image.width, f)]

----------------------------------------------------------------------------
(* sensor_io::NARaw (lib.rs): the by-quadrant CFA rule *)

\* Lib_bayer_channel reading blue on the whole odd row
Lib_bayer_channel_odd_row_blue(x, y) ==
    IF y % 2 = 0
    THEN (IF x % 2 = 0 THEN 0 ELSE 1)
    ELSE 2

\* the channel index convert_rgb_to_bayer reads at (x, y): R, Gr / Gb, B
Lib_bayer_channel(x, y) ==
    IF y % 2 = 0
    THEN (IF x % 2 = 0 THEN 0 ELSE 1)
    ELSE (IF x % 2 = 0 THEN 1 ELSE 2)

Lib_convert_rgb_to_bayer(image, x, y) == GetPixel(image, x, y, Lib_bayer_channel(x, y))

\* pix.expect("convert Rgba -> T") per cell
Lib_new_from_rgbimage(image, bits) ==
    LET f == [y \in 0..(image.height - 1), x \in 0..(image.width - 1) |->
                Lib_convert_rgb_to_bayer(image, x, y)]
    IN  IF ~image.ok THEN Panic
        ELSE IF \E x \in 0..(image.width - 1), y \in 0..(image.height - 1) :
                    ~FitsT(f[y, x], bits)
             THEN Panic
             ELSE [ok |-> TRUE, buf |-> NA_from_fn(image.height, image.width, f)]

\* pix(x, y) is data.column(x)[y]
Lib_pix(buf, x, y) == buf.elems[x * buf.nrows + y + 1]

----------------------------------------------------------------------------
(* Inputs of the driver *)

\* widths and heights asked of new(): the small ones, and the first one
\* that is no u16
Dims == (0..MaxDim) \cup {U16Modulus}

\* sequences over S of length at most n
SeqsUpTo(S, n) == UNION {[1..k -> S] : k \in 0..n}

RECURSIVE TotalLen(_)
TotalLen(vec2d) == IF Len(vec2d) = 0 THEN 0 ELSE Len(Head(vec2d)) + TotalLen(Tail(vec2d))

\* the nested sequences given to new_from_vector2d: empty, rectangular and
\* ragged ones
Vec2dInputs(bits) ==
    {vec2d \in SeqsUpTo(SeqsUpTo(ElemVals(bits), MaxDim), MaxRows) :
        TotalLen(vec2d) <= MaxCells}

File(bytes) == [exists |-> TRUE, bytes |-> bytes]

\* files not written by this program: missing, empty, cut in the header,
\* cut inside a value, complete, with a zero dimension, cut after a value,
\* with trailing bytes
ExtFiles ==
    { NoFile, File(<< >>), File(<<1, 0, 1>>), File(<<1, 0, 1, 0, 7>>),
      File(<<1, 0, 1, 0, 44, 1>>), File(<<0, 0, 1, 0>>),
      File(<<2, 0, 1, 0, 7, 0>>), File(<<1, 0, 1, 0, 7, 0, 9, 9>>) }

\* the RGB triples of the image sources
RGBs == { <<10, 20, 30>>, <<200, 100, 50>> }

NoImg == [ok |-> FALSE, width |-> 0, height |-> 0, px |-> << >>]

\* what image::open returns: a decoding failure, or an image
Images ==
    {NoImg} \cup
    UNION { { [ok |-> TRUE, width |-> w, height |-> h, px |-> px] :
                px \in [1..(w * h) -> RGBs] } :
            w \in 1..ImgDim, h \in 1..ImgDim }

Outcome(r) == IF r.ok THEN "ok" ELSE "panic"

----------------------------------------------------------------------------
(* The buffer and codec operations, applied to NARaw and NDRaw alike.  The  *)
(* driver builds its buffer first, with new or new_from_vector2d, as each   *)
(* test does; later it may write cells, write the file, and build the      *)
(* buffer anew from a file.                                                *)

Init ==
    /\ tbits \in TBits
    /\ img = NoImg
    /\ lib = NoBuf /\ libOut = "ok"
    /\ na = NoBuf /\ naOut = "ok"
    /\ nd = NoBuf /\ ndOut = "ok"
    /\ naFile = NoFile /\ ndFile = NoFile
    /\ op = [name |-> "init"]

\* the allocation holds at most MaxCells cells
CellsWithin(width, height) ==
    \/ width = 0
    \/ height = 0
    \/ (width <= MaxCells /\ height <= MaxCells /\ width * height <= MaxCells)

\* let raw_in = NARaw::<T>::new(width, height), and the NDRaw one
New(width, height) ==
    /\ CellsWithin(width, height)
    /\ na' = NA_new(width, height).buf /\ naOut' = Outcome(NA_new(width, height))
    /\ nd' = ND_new(width, height).buf /\ ndOut' = Outcome(ND_new(width, height))
    /\ op' = [name |-> "new", width |-> width, height |-> height]
    /\ UNCHANGED <<tbits, img, lib, libOut, naFile, ndFile>>

\* let raw_in = NARaw::<T>::new_from_vector2d(&vec2d), and the NDRaw one
NewFromVector2d(vec2d) ==
    /\ na' = NA_new_from_vector2d(vec2d).buf
    /\ naOut' = Outcome(NA_new_from_vector2d(vec2d))
    /\ nd' = ND_new_from_vector2d(vec2d).buf
    /\ ndOut' = Outcome(ND_new_from_vector2d(vec2d))
    /\ op' = [name |-> "new_from_vector2d", vec2d |-> vec2d]
    /\ UNCHANGED <<tbits, img, lib, libOut, naFile, ndFile>>

\* *raw_in.pix(x, y) = v
PixWrite(x, y, v) ==
    /\ na.live /\ nd.live
    /\ na' = NA_pix_write(na, x, y, v).buf /\ naOut' = Outcome(NA_pix_write(na, x, y, v))
    /\ nd' = ND_pix_write(nd, x, y, v).buf /\ ndOut' = Outcome(ND_pix_write(nd, x, y, v))
    /\ op' = [name |-> "pix"]
    /\ UNCHANGED <<tbits, img, lib, libOut, naFile, ndFile>>

\* raw_in.write_binimage(path): File::create empties the file, then the
\* stream is written
WriteBinimage ==
    /\ na.live /\ nd.live
    /\ naFile' = File(NA_write_binimage(na).bytes)
    /\ naOut' = Outcome(NA_write_binimage(na))
    /\ ndFile' = File(ND_write_binimage(nd).bytes)
    /\ ndOut' = Outcome(ND_write_binimage(nd))
    /\ op' = [name |-> "write_binimage"]
    /\ UNCHANGED <<tbits, img, lib, libOut, na, nd>>

\* the file a decoding call opens: the one this implementation wrote
\* (src = "own"), or one this program did not write
NaSource(src, ext) == IF src = "own" THEN naFile ELSE ext

NdSource(src, ext) == IF src = "own" THEN ndFile ELSE ext

\* let raw_in = NARaw::<T>::new_from_binimage(path), and the NDRaw one
NewFromBinimage(src, ext) ==
    /\ na' = NA_new_from_binimage(NaSource(src, ext), tbits).buf
    /\ naOut' = Outcome(NA_new_from_binimage(NaSource(src, ext), tbits))
    /\ nd' = ND_new_from_binimage(NdSource(src, ext), tbits).buf
    /\ ndOut' = Outcome(ND_new_from_binimage(NdSource(src, ext), tbits))
    /\ op' = [name |-> "new_from_binimage", src |-> src, ext |-> ext]
    /\ UNCHANGED <<tbits, img, lib, libOut, naFile, ndFile>>

\* raw_in.read_binimage(path)
ReadBinimage(src, ext) ==
    /\ na.live /\ nd.live
    /\ na' = NA_read_binimage(na, NaSource(src, ext), tbits).buf
    /\ naOut' = Outcome(NA_read_binimage(na, NaSource(src, ext), tbits))
    /\ nd' = ND_read_binimage(nd, NdSource(src, ext), tbits).buf
    /\ ndOut' = Outcome(ND_read_binimage(nd, NdSource(src, ext), tbits))
    /\ op' = [name |-> "read_binimage", src |-> src, ext |-> ext]
    /\ UNCHANGED <<tbits, img, lib, libOut, naFile, ndFile>>

\* the paths a decoding call is given
Sources == {<<"own", NoFile>>} \cup {<<"ext", f>> : f \in ExtFiles}

Next ==
    \/ op.name = "init" /\ \E width \in Dims, height \in Dims : New(width, height)
    \/ op.name = "init" /\ \E vec2d \in Vec2dInputs(tbits) : NewFromVector2d(vec2d)
    \/ \E x \in 0..MaxDim, y \in 0..MaxDim, v \in ElemVals(tbits) : PixWrite(x, y, v)
    \/ WriteBinimage
    \/ \E s \in Sources : NewFromBinimage(s[1], s[2])
    \/ \E s \in Sources : ReadBinimage(s[1], s[2])

Spec == Init /\ [][Next]_vars

----------------------------------------------------------------------------
(* Bayer sampling of an RGB image, by the three implementations *)

InitBayer ==
    /\ tbits \in TBits
    /\ img \in Images
    /\ lib = NoBuf /\ libOut = "ok"
    /\ na = NoBuf /\ naOut = "ok"
    /\ nd = NoBuf /\ ndOut = "ok"
    /\ naFile = NoFile /\ ndFile = NoFile
    /\ op = [name |-> "init"]

\* let raw_in = NARaw::<T>::new_from_rgbimage(path), in lib.rs, naraw.rs
\* and ndraw.rs
NewFromRgbImage ==
    /\ op.name = "init"
    /\ lib' = Lib_new_from_rgbimage(img, tbits).buf
    /\ libOut' = Outcome(Lib_new_from_rgbimage(img, tbits))
    /\ na' = NA_new_from_rgbimage(img, tbits).buf
    /\ naOut' = Outcome(NA_new_from_rgbimage(img, tbits))
    /\ nd' = ND_new_from_rgbimage(img, tbits).buf
    /\ ndOut' = Outcome(ND_new_from_rgbimage(img, tbits))
    /\ op' = [name |-> "new_from_rgbimage"]
    /\ UNCHANGED <<tbits, img, naFile, ndFile>>

NextBayer == NewFromRgbImage

SpecBayer == InitBayer /\ [][NextBayer]_vars

----------------------------------------------------------------------------
(* Properties *)

\* a buffer as its accessors show it
ViewNA(buf) ==
    [width |-> NA_width(buf), height |-> NA_height(buf),
     pix |-> [c \in (0..(NA_width(buf) - 1)) \X (0..(NA_height(buf) - 1)) |->
                NA_pix(buf, c[1], c[2])]]

ViewND(buf) ==
    [width |-> ND_width(buf), height |-> ND_height(buf),
     pix |-> [c \in (0..(ND_width(buf) - 1)) \X (0..(ND_height(buf) - 1)) |->
                ND_pix(buf, c[1], c[2])]]

IsDecode(o) == o.name \in {"new_from_binimage", "read_binimage"}

\* C1: round trip: a buffer whose values are all <= 65535, written with
\* write_binimage and read back from that file, comes back with the same
\* width, the same height and the same value at every coordinate.
C1_RoundTrip ==
    [][ ( /\ op.name = "write_binimage"
          /\ IsDecode(op') /\ op'.src = "own"
          /\ \A i \in 1..Len(na.elems) : na.elems[i] <= 65535
          /\ \A i \in 1..Len(nd.elems) : nd.elems[i] <= 65535 )
        => ( /\ naOut' = "ok" /\ na'.live /\ ViewNA(na') = ViewNA(na)
             /\ ndOut' = "ok" /\ nd'.live /\ ViewND(nd') = ViewND(nd) ) ]_vars

\* the layout of C2 for one written file: 4 + 2*width*height bytes, width
\* then height as little-endian u16, the pixel at (x, y) in the two bytes
\* at offset 4 + 2*(y*width + x)
LaidOut(bytes, view) ==
    /\ Len(bytes) = 4 + 2 * view.width * view.height
    /\ bytes[1] = (view.width % 65536) % 256
    /\ bytes[2] = (view.width % 65536) \div 256
    /\ bytes[3] = (view.height % 65536) % 256
    /\ bytes[4] = (view.height % 65536) \div 256
    /\ \A x \in 0..(view.width - 1), y \in 0..(view.height - 1) :
          /\ bytes[4 + 2 * (y * view.width + x) + 1] = view.pix[x, y] % 256
          /\ bytes[4 + 2 * (y * view.width + x) + 2] = view.pix[x, y] \div 256

Rectangular(vec2d) ==
    /\ Len(vec2d) > 0
    /\ Len(vec2d[1]) > 0
    /\ \A y \in 1..Len(vec2d) : Len(vec2d[y]) = Len(vec2d[1])

\* some inner sequence has a length different from the first one
Ragged(vec2d) ==
    /\ Len(vec2d) > 0
    /\ \E y \in 1..Len(vec2d) : Len(vec2d[y]) # Len(vec2d[1])

\* C3: new_from_vector2d of a non-empty rectangular nested sequence
\* returns a buffer with height = number of rows, width = length of the
\* first row and pix(x, y) = rows[y][x].
C3_FromVector2d ==
    (op.name = "new_from_vector2d" /\ Rectangular(op.vec2d)) =>
        /\ naOut = "ok" /\ na.live
        /\ NA_height(na) = Len(op.vec2d) /\ NA_width(na) = Len(op.vec2d[1])
        /\ ndOut = "ok" /\ nd.live
        /\ ND_height(nd) = Len(op.vec2d) /\ ND_width(nd) = Len(op.vec2d[1])
        /\ \A y \in 0..(Len(op.vec2d) - 1), x \in 0..(Len(op.vec2d[1]) - 1) :
              /\ NA_pix(na, x, y) = op.vec2d[y + 1][x + 1]
              /\ ND_pix(nd, x, y) = op.vec2d[y + 1][x + 1]

C3_Witness ==
    /\ op.name = "new_from_vector2d" /\ Rectangular(op.vec2d)
    /\ Len(op.vec2d) = 2 /\ Len(op.vec2d[1]) = 2
    /\ op.vec2d[1][2] # op.vec2d[2][1]
    /\ na.live /\ nd.live

\* C4: for width > 0 and height > 0, new(width, height) returns a buffer
\* of that width and height in which every cell reads as zero.
C4_New ==
    (op.name = "new" /\ op.width > 0 /\ op.height > 0) =>
        /\ naOut = "ok" /\ na.live
        /\ NA_width(na) = op.width /\ NA_height(na) = op.height
        /\ ndOut = "ok" /\ nd.live
        /\ ND_width(nd) = op.width /\ ND_height(nd) = op.height
        /\ \A x \in 0..(op.width - 1), y \in 0..(op.height - 1) :
              NA_pix(na, x, y) = 0 /\ ND_pix(nd, x, y) = 0

C4_Witness ==
    /\ op.name = "new" /\ op.width = 2 /\ op.height = 1
    /\ na.live /\ nd.live

\* C5: no public constructor yields a buffer with width = 0 or height = 0,
\* so every buffer there is has width > 0 and height > 0.
C5_PositiveDims ==
    /\ na.live => (NA_width(na) > 0 /\ NA_height(na) > 0)
    /\ nd.live => (ND_width(nd) > 0 /\ ND_height(nd) > 0)

\* C6: new_from_vector2d of a ragged nested sequence fails and returns no
\* buffer.
C6_RaggedRejected ==
    (op.name = "new_from_vector2d" /\ Ragged(op.vec2d)) =>
        /\ naOut = "panic" /\ ~na.live
        /\ ndOut = "panic" /\ ~nd.live

\* the source image has the same triple at every coordinate
Uniform(image, rgb) == \A i \in 1..Len(image.px) : image.px[i] = rgb

\* C7: under the by-quadrant rule new_from_rgbimage of a W x H source
\* returns a W x H buffer whose pixel at (x, y) is the source's R where x and
\* y are even, G where exactly one is odd, B where both are odd; on a
\* uniform (10, 20, 30) source the pattern 10, 20 / 20, 30 tiles the buffer.
C7_ByQuadrant ==
    (op.name = "new_from_rgbimage" /\ img.ok) =>
        /\ libOut = "ok" /\ lib.live
        /\ lib.ncols = img.width /\ lib.nrows = img.height
        /\ \A x \in 0..(img.width - 1), y \in 0..(img.height - 1) :
              LET rgb == img.px[y * img.width + x + 1] IN
              /\ (x % 2 = 0 /\ y % 2 = 0) => Lib_pix(lib, x, y) = rgb[1]
              /\ ((x % 2 = 1) # (y % 2 = 1)) => Lib_pix(lib, x, y) = rgb[2]
              /\ (x % 2 = 1 /\ y % 2 = 1) => Lib_pix(lib, x, y) = rgb[3]
              /\ Uniform(img, <<10, 20, 30>>) =>
                    Lib_pix(lib, x, y) = 10 + 10 * (x % 2) + 10 * (y % 2)

C7_Witness ==
    /\ op.name = "new_from_rgbimage" /\ img.ok /\ lib.live
    /\ img.width = 2 /\ img.height = 2
    /\ Uniform(img, <<10, 20, 30>>)

\* a stream that ends before the 4-byte header and the 2*width*height
\* raster bytes the header declares
CutShort(file) ==
    /\ file.exists
    /\ \/ Len(file.bytes) < 4
       \/ Len(file.bytes) < 4 + 2 * (file.bytes[1] + 256 * file.bytes[2])
                                  * (file.bytes[3] + 256 * file.bytes[4])

\* C8: decoding a stream that is cut short fails and exposes no partly
\* filled buffer: new_from_binimage returns no buffer, and the buffer
\* read_binimage was called on keeps its width, height and pixels.
C8_TruncatedStream ==
    [][ /\ ( /\ op'.name = "new_from_binimage"
             /\ CutShort(NaSource(op'.src, op'.ext)) )
           => (naOut' = "panic" /\ ~na'.live)
        /\ ( /\ op'.name = "new_from_binimage"
             /\ CutShort(NdSource(op'.src, op'.ext)) )
           => (ndOut' = "panic" /\ ~nd'.live)
        /\ ( /\ op'.name = "read_binimage"
             /\ CutShort(NaSource(op'.src, op'.ext)) )
           => (naOut' = "panic" /\ na' = na)
        /\ ( /\ op'.name = "read_binimage"
             /\ CutShort(NdSource(op'.src, op'.ext)) )
           => (ndOut' = "panic" /\ nd' = nd) ]_vars

C8_Witness ==
    /\ op.name = "read_binimage"
    /\ CutShort(NaSource(op.src, op.ext)) /\ CutShort(NdSource(op.src, op.ext))
    /\ Len(NaSource(op.src, op.ext).bytes) > 4
    /\ naOut = "panic" /\ ndOut = "panic"
    /\ na.live /\ NA_width(na) = 2 /\ NA_height(na) = 2
    /\ \E i \in 1..Len(na.elems) : na.elems[i] # 0

\* C9: NARaw and NDRaw are equivalent: each step has the same outcome on
\* both, and after it both buffers have the same width, height and pixels
\* and both files the same bytes.
C9_Equivalent ==
    /\ naOut = ndOut
    /\ na.live = nd.live
    /\ (na.live /\ nd.live) => ViewNA(na) = ViewND(nd)
    /\ naFile = ndFile

\* C10: the two CFA rules differ: at some coordinate the by-quadrant rule
\* and the by-parity rule select different channels.
C10_RulesDiffer ==
    op.name = "new_from_rgbimage" =>
        \E x \in 0..ImgDim, y \in 0..ImgDim :
            Lib_bayer_channel(x, y) # NA_bayer_channel(x, y)

\* C10, amended: the two CFA rules agree: at every coordinate they select
\* the same channel, and the buffers the two implementations sample from
\* one source are equal cell by cell.
C10_RulesAgree ==
    (op.name = "new_from_rgbimage" /\ img.ok) =>
        /\ libOut = "ok" /\ naOut = "ok"
        /\ lib.ncols = NA_width(na) /\ lib.nrows = NA_height(na)
        /\ \A x \in 0..(img.width - 1), y \in 0..(img.height - 1) :
              /\ Lib_bayer_channel(x, y) = NA_bayer_channel(x, y)
              /\ Lib_pix(lib, x, y) = NA_pix(na, x, y)

C10_Witness ==
    /\ op.name = "new_from_rgbimage" /\ img.ok
    /\ img.width = 2 /\ img.height = 2
    /\ lib.live /\ na.live
    /\ Lib_pix(lib, 0, 0) # Lib_pix(lib, 1, 1)

====
